---- MODULE Spec2Model ----
(***************************************************************************)
(* Model of package gapp (app.go, middleware.go).                          *)
(*                                                                         *)
(* The specifications of this module:                                      *)
(*   Spec     - Run(app): the lifecycle callbacks, the port check, the two *)
(*              listener goroutines, the WaitGroup and HandleStopped.      *)
(*   FairSpec - Spec with the fairness of the Go scheduler.                *)
(*   MwSpec   - one request at a time travelling through a negroni chain   *)
(*              built from the package's middleware units and a router.    *)
(*   TimedSpec - MwSpec with a clock that advances between the steps.      *)
(*   ConcSpec  - MwSpec with a second request interleaved step by step.    *)
(***************************************************************************)
EXTENDS Integers, Sequences, FiniteSets, TLC

VARIABLES
    pc,            \* position of the goroutine executing Run
    calls,         \* Gapp callbacks invoked so far, in order, with arguments
    config,        \* app.go:54  config (value returned by LoadConfig)
    r,             \* app.go:115 r := mux.NewRouter()
    n,             \* app.go:119 n := negroni.New(...); n.UseHandler(r)
    serverConfig,  \* app.go:56  serverConfig
    wg,            \* app.go:63  sync.WaitGroup counter
    listeners,     \* the two goroutines of app.go:67 and app.go:86
    panicMsg,      \* value of the panic that left Run, "none" if none
    req,           \* the request whose goroutine is executing in the chain
    events,        \* what that request's middleware and handler did
    clock,         \* the monotonic clock read by time.Now and time.Since
    middleware,    \* app.go:119 the list app.SetMiddleware(config) returned
    other,         \* a second request, in a goroutine that is not executing
    otherEvents    \* what the second request's middleware and handler did

runVars == <<pc, calls, config, r, serverConfig, wg, listeners, panicMsg>>
mwVars == <<req, events, clock, middleware, other, otherEvents>>
vars == <<pc, calls, config, r, n, serverConfig, wg, listeners, panicMsg, req, events,
          clock, middleware, other, otherEvents>>

(***************************************************************************)
(* Bounds                                                                  *)
(***************************************************************************)
\* requests a listener serves before the model stops counting them
MaxServed == 2
\* longest middleware list SetMiddleware returns in MwSpec
MaxMiddleware == 3
\* longest middleware list in TimedSpec, and the last reading of its clock
MaxTimedMiddleware == 2
MaxClock == 2
\* longest middleware list in ConcSpec
MaxConcMiddleware == 2

(***************************************************************************)
(* Values                                                                  *)
(***************************************************************************)
None == "none"
Schemes == {"http", "https"}

\* Config is an opaque value of the application (LoadConfig's result)
Configs == {"cfgA", "cfgB"}
Hosts == {"", "localhost"}
Ports == {-1, 0, 8080, 8443}
Routes == {"/ping"}

\* ServerConfig, app.go:21-30
ServerConfigs ==
    [Host : Hosts, Port : Ports, GracefulTimeout : {10}, ReadTimeout : {5},
     WriteTimeout : {5}, TLSPort : Ports, TLSCertFile : {"cert.pem"},
     TLSPrivateKeyFile : {"key.pem"}]

(***************************************************************************)
(* Middleware units, middleware.go:11-43                                   *)
(*   recoverFunc : "nil", or what the supplied func does when deferred:    *)
(*                 "recover" calls recover() and writes a 500,             *)
(*                 "observe" returns without calling recover()             *)
(*   preLogFunc, postLogFunc : "nil" or "set"                              *)
(***************************************************************************)
RecoverFuncs == {"nil", "recover", "observe"}

\* the nil http.Handler and the negroni value before app.go:119
NilHandler == [kind |-> "nil", routes |-> {}]
NilNegroni == [handlers |-> <<>>]
LogFuncs == {"nil", "set"}

RecoveryMiddleware(recoverFunc) ==
    [kind |-> "recovery", recoverFunc |-> recoverFunc,
     preLogFunc |-> "nil", postLogFunc |-> "nil", handler |-> NilHandler]

LoggingMiddleware(preLogFunc, postLogFunc) ==
    [kind |-> "logging", recoverFunc |-> "nil",
     preLogFunc |-> preLogFunc, postLogFunc |-> postLogFunc, handler |-> NilHandler]

GzipMiddleware ==
    [kind |-> "gzip", recoverFunc |-> "nil",
     preLogFunc |-> "nil", postLogFunc |-> "nil", handler |-> NilHandler]

Units ==
    {RecoveryMiddleware(f) : f \in RecoverFuncs}
    \cup {LoggingMiddleware(f, g) : f \in LogFuncs, g \in LogFuncs}
    \cup {GzipMiddleware}

\* negroni.Wrap(handler): the unit UseHandler appends for an http.Handler
Wrap(h) ==
    [kind |-> "wrap", recoverFunc |-> "nil",
     preLogFunc |-> "nil", postLogFunc |-> "nil", handler |-> h]

\* mux.NewRouter(), app.go:115
NewRouter == [kind |-> "router", routes |-> {}]

\* r.HandleFunc(route, handler), what ConfigureRoutes does with the router
HandleFunc(router, routes) == [router EXCEPT !.routes = @ \cup routes]

\* mutant: the units are installed in the reverse of the order supplied
NegroniNew_Reversed(handlers) ==
    [handlers |-> [i \in DOMAIN handlers |-> handlers[Len(handlers) + 1 - i]]]

\* negroni.New(handlers...), app.go:119
NegroniNew(handlers) == [handlers |-> handlers]

\* n.UseHandler(r), app.go:121: the router becomes the last unit of the chain
UseHandler(neg, h) == [neg EXCEPT !.handlers = Append(@, Wrap(h))]

\* the lists SetMiddleware returns in Spec
AppMiddleware ==
    { <<>>,
      <<RecoveryMiddleware("recover")>>,
      <<LoggingMiddleware("set", "set"), RecoveryMiddleware("observe")>>,
      <<RecoveryMiddleware("recover"), LoggingMiddleware("set", "set"), GzipMiddleware>> }

(***************************************************************************)
(* strconv.Itoa and the listen address, app.go:74 and app.go:93            *)
(***************************************************************************)
Digit(d) ==
    CASE d = 0 -> "0" [] d = 1 -> "1" [] d = 2 -> "2" [] d = 3 -> "3"
      [] d = 4 -> "4" [] d = 5 -> "5" [] d = 6 -> "6" [] d = 7 -> "7"
      [] d = 8 -> "8" [] d = 9 -> "9"

RECURSIVE Itoa(_)
Itoa(i) ==
    IF i < 0 THEN "-" \o Itoa(-i)
    ELSE IF i < 10 THEN Digit(i)
    ELSE Itoa(i \div 10) \o Digit(i % 10)

Addr(host, port) == host \o ":" \o Itoa(port)

(***************************************************************************)
(* Listener goroutines                                                     *)
(*   state: "none"     go statement not executed                           *)
(*          "spawned"  goroutine created, defer wg.Done() registered       *)
(*          "serving"  inside ListenAndServe[TLS], accepting connections   *)
(*          "draining" stop signal received, waiting for in-flight work    *)
(*          "returned" ListenAndServe[TLS] returned, wg.Done() pending     *)
(*          "exited"   wg.Done() executed, goroutine gone                  *)
(***************************************************************************)
NoServer == [Addr |-> None, Handler |-> NilNegroni, Timeout |-> 0,
             WriteTimeout |-> 0, ReadTimeout |-> 0, tls |-> FALSE]

\*   err:   what the serve call returned, which the goroutine drops:
\*          "none" while it has not returned, "error" when it returned at
\*          once (bind or certificate failure), "closed" after a stop
NoListener == [state |-> "none", srv |-> NoServer, served |-> 0, err |-> None]

\* mutant: the check rejects only negative ports
NoPorts_Negative(sc) == sc.Port < 0 /\ sc.TLSPort < 0

\* app.go:59 the condition of the fatal abort
NoPorts(sc) == sc.Port <= 0 /\ sc.TLSPort <= 0

\* app.go:65 and app.go:84 the condition under which a scheme's goroutine starts
Configured(sc, scheme) ==
    IF scheme = "http" THEN sc.Port > 0 ELSE sc.TLSPort > 0

\* mutant: the TLS goroutine copies the plain listener's address
GracefulServer_CopyPaste(sc, scheme, handler) ==
    [Addr |-> Addr(sc.Host, sc.Port),
     Handler |-> handler,
     Timeout |-> sc.GracefulTimeout,
     WriteTimeout |-> sc.WriteTimeout,
     ReadTimeout |-> sc.ReadTimeout,
     tls |-> (scheme = "https")]

\* app.go:70-79 and app.go:89-98 the graceful.Server a goroutine builds
GracefulServer(sc, scheme, handler) ==
    [Addr |-> Addr(sc.Host, IF scheme = "http" THEN sc.Port ELSE sc.TLSPort),
     Handler |-> handler,
     Timeout |-> sc.GracefulTimeout,
     WriteTimeout |-> sc.WriteTimeout,
     ReadTimeout |-> sc.ReadTimeout,
     tls |-> (scheme = "https")]

Call(name, args) == [name |-> name, args |-> args]

\* mutant: Run recovers the fault of a callback, keeps its message and goes on
AfterCallback_Swallow(fault, next) ==
    /\ pc' = next
    /\ panicMsg' = IF fault THEN "callback fault" ELSE panicMsg

\* a callback of the application either returns or raises a fault, which
\* nothing in Run recovers
AfterCallback(fault, next) ==
    /\ pc' = IF fault THEN "panicked" ELSE next
    /\ panicMsg' = IF fault THEN "callback fault" ELSE panicMsg

(***************************************************************************)
(* Initial state: Run has been called, nothing has executed                *)
(***************************************************************************)
NoServerConfig ==
    [Host |-> None, Port |-> 0, GracefulTimeout |-> 0, ReadTimeout |-> 0,
     WriteTimeout |-> 0, TLSPort |-> 0, TLSCertFile |-> None,
     TLSPrivateKeyFile |-> None]

\* the requests of the model: method, path and whether the client accepts gzip
Requests ==
    { [Method |-> "GET", Path |-> "/ping", AcceptGzip |-> TRUE],
      [Method |-> "POST", Path |-> "/items", AcceptGzip |-> FALSE] }

NilRequest == [Method |-> None, Path |-> None, AcceptGzip |-> FALSE]

\* a request on its way through the chain
\*   state     "idle" | "active" | "done" (ServeHTTP returned) |
\*             "crashed" (the panic left the chain)
\*   depth     index in n.handlers of the unit whose frame is executing
\*   phase     "enter": the unit's ServeHTTP starts; "exit": its next returned
\*   panicking a panic is unwinding the stack
\*   status    status recorded by the negroni.ResponseWriter, 0 if none
\*   starts    starts[d]: the local start of the logging frame at depth d
NoRequest ==
    [state |-> "idle", r |-> NilRequest, depth |-> 0, phase |-> "enter",
     panicking |-> FALSE, status |-> 0, starts |-> <<>>]

RunInit ==
    /\ pc = "LoadConfig"
    /\ calls = <<>>
    /\ config = None
    /\ r = NilHandler
    /\ serverConfig = NoServerConfig
    /\ wg = 0
    /\ listeners = [s \in Schemes |-> NoListener]
    /\ panicMsg = None

\* no request is in the chain
NoTraffic ==
    /\ req = NoRequest
    /\ events = <<>>
    /\ clock = 0
    /\ other = NoRequest
    /\ otherEvents = <<>>

Init ==
    /\ RunInit
    /\ n = NilNegroni
    /\ middleware = <<>>
    /\ NoTraffic

(***************************************************************************)
(* initApp, app.go:110-124                                                 *)
(***************************************************************************)
\* mutant: ConfigureLogging is not called
LoadConfig_SkipLogging ==
    /\ pc = "LoadConfig"
    /\ \E c \in Configs, fault \in BOOLEAN :
        /\ calls' = Append(calls, Call("LoadConfig", <<>>))
        /\ config' = IF fault THEN config ELSE c
        /\ AfterCallback(fault, "InitResources")
    /\ UNCHANGED <<r, n, serverConfig, wg, listeners, req, events,
                 clock, middleware, other, otherEvents>>

\* app.go:111
LoadConfig ==
    /\ pc = "LoadConfig"
    /\ \E c \in Configs, fault \in BOOLEAN :
        /\ calls' = Append(calls, Call("LoadConfig", <<>>))
        /\ config' = IF fault THEN config ELSE c
        /\ AfterCallback(fault, "ConfigureLogging")
    /\ UNCHANGED <<r, n, serverConfig, wg, listeners, req, events,
                 clock, middleware, other, otherEvents>>

\* app.go:112
ConfigureLogging ==
    /\ pc = "ConfigureLogging"
    /\ \E fault \in BOOLEAN :
        /\ calls' = Append(calls, Call("ConfigureLogging", <<config>>))
        /\ AfterCallback(fault, "InitResources")
    /\ UNCHANGED <<config, r, n, serverConfig, wg, listeners, req, events,
                 clock, middleware, other, otherEvents>>

\* app.go:113
InitResources ==
    /\ pc = "InitResources"
    /\ \E fault \in BOOLEAN :
        /\ calls' = Append(calls, Call("InitResources", <<config>>))
        /\ AfterCallback(fault, "ConfigureRoutes")
    /\ UNCHANGED <<config, r, n, serverConfig, wg, listeners, req, events,
                 clock, middleware, other, otherEvents>>

\* app.go:115-117
ConfigureRoutes ==
    /\ pc = "ConfigureRoutes"
    /\ \E routes \in SUBSET Routes, fault \in BOOLEAN :
        /\ calls' = Append(calls, Call("ConfigureRoutes", <<"r", config>>))
        /\ r' = IF fault THEN NewRouter ELSE HandleFunc(NewRouter, routes)
        /\ AfterCallback(fault, "SetMiddleware")
    /\ UNCHANGED <<config, n, serverConfig, wg, listeners, req, events,
                 clock, middleware, other, otherEvents>>

\* app.go:119-123
SetMiddleware ==
    /\ pc = "SetMiddleware"
    /\ \E handlers \in AppMiddleware, fault \in BOOLEAN :
        /\ calls' = Append(calls, Call("SetMiddleware", <<config>>))
        /\ middleware' = IF fault THEN middleware ELSE handlers
        /\ n' = IF fault THEN n ELSE UseHandler(NegroniNew(handlers), r)
        /\ AfterCallback(fault, "GetServerConf")
    /\ UNCHANGED <<config, r, serverConfig, wg, listeners, req, events,
                 clock, other, otherEvents>>

(***************************************************************************)
(* Run, app.go:53-106                                                      *)
(***************************************************************************)
\* app.go:56
GetServerConf ==
    /\ pc = "GetServerConf"
    /\ \E sc \in ServerConfigs, fault \in BOOLEAN :
        /\ calls' = Append(calls, Call("GetServerConf", <<config>>))
        /\ serverConfig' = IF fault THEN serverConfig ELSE sc
        /\ AfterCallback(fault, "HandleStart")
    /\ UNCHANGED <<config, r, n, wg, listeners, req, events,
                 clock, middleware, other, otherEvents>>

\* mutant: the two ports are passed in the wrong order
HandleStart_SwappedPorts ==
    /\ pc = "HandleStart"
    /\ \E fault \in BOOLEAN :
        /\ calls' = Append(calls, Call("HandleStart",
               <<serverConfig.Host, serverConfig.TLSPort, serverConfig.Port>>))
        /\ AfterCallback(fault, "CheckPorts")
    /\ UNCHANGED <<config, r, n, serverConfig, wg, listeners, req, events,
                 clock, middleware, other, otherEvents>>

\* app.go:57
HandleStart ==
    /\ pc = "HandleStart"
    /\ \E fault \in BOOLEAN :
        /\ calls' = Append(calls, Call("HandleStart",
               <<serverConfig.Host, serverConfig.Port, serverConfig.TLSPort>>))
        /\ AfterCallback(fault, "CheckPorts")
    /\ UNCHANGED <<config, r, n, serverConfig, wg, listeners, req, events,
                 clock, middleware, other, otherEvents>>

\* app.go:59-61
CheckPorts ==
    /\ pc = "CheckPorts"
    /\ IF NoPorts(serverConfig)
         THEN /\ pc' = "panicked"
              /\ panicMsg' = "No ports specified"
         ELSE /\ pc' = "StartHTTP"
              /\ panicMsg' = panicMsg
    /\ UNCHANGED <<calls, config, r, n, serverConfig, wg, listeners, req, events,
                 clock, middleware, other, otherEvents>>

\* wg.Add(1); go func() { defer wg.Done(); ... }()   app.go:66-67, app.go:85-86
Go(scheme) ==
    /\ wg' = wg + 1
    /\ listeners' = [listeners EXCEPT ![scheme].state = "spawned"]

\* app.go:65-82
StartHTTP ==
    /\ pc = "StartHTTP"
    /\ IF Configured(serverConfig, "http")
         THEN Go("http")
         ELSE UNCHANGED <<wg, listeners>>
    /\ pc' = "StartTLS"
    /\ UNCHANGED <<calls, config, r, n, serverConfig, panicMsg, req, events,
                 clock, middleware, other, otherEvents>>

\* app.go:84-101
StartTLS ==
    /\ pc = "StartTLS"
    /\ IF Configured(serverConfig, "https")
         THEN Go("https")
         ELSE UNCHANGED <<wg, listeners>>
    /\ pc' = "Wait"
    /\ UNCHANGED <<calls, config, r, n, serverConfig, panicMsg, req, events,
                 clock, middleware, other, otherEvents>>

\* mutant: Run does not wait for the listeners
Wait_NoBarrier ==
    /\ pc = "Wait"
    /\ pc' = "HandleStopped"
    /\ UNCHANGED <<calls, config, r, n, serverConfig, wg, listeners, panicMsg, req, events,
                 clock, middleware, other, otherEvents>>

\* app.go:103 wg.Wait() returns when the counter is zero
Wait ==
    /\ pc = "Wait"
    /\ wg = 0
    /\ pc' = "HandleStopped"
    /\ UNCHANGED <<calls, config, r, n, serverConfig, wg, listeners, panicMsg, req, events,
                 clock, middleware, other, otherEvents>>

\* app.go:105-106
HandleStopped ==
    /\ pc = "HandleStopped"
    /\ \E fault \in BOOLEAN :
        /\ calls' = Append(calls, Call("HandleStopped", <<>>))
        /\ AfterCallback(fault, "done")
    /\ UNCHANGED <<config, r, n, serverConfig, wg, listeners, req, events,
                 clock, middleware, other, otherEvents>>

\* mutant: the goroutine panics with the error its serve call returned
ListenAndServe_PanicOnError(scheme) ==
    /\ listeners[scheme].state = "spawned"
    /\ \E bound \in BOOLEAN :
        /\ listeners' = [listeners EXCEPT
              ![scheme].srv = GracefulServer(serverConfig, scheme, n),
              ![scheme].state = IF bound THEN "serving" ELSE "returned",
              ![scheme].err = IF bound THEN None ELSE "error"]
        /\ pc' = IF bound THEN pc ELSE "panicked"
        /\ panicMsg' = IF bound THEN panicMsg ELSE "listen error"
    /\ UNCHANGED <<calls, config, r, n, serverConfig, wg, req, events,
                 clock, middleware, other, otherEvents>>

\* mutant: each listener goroutine appends the router to the shared chain
\* again before serving
ListenAndServe_Rewraps(scheme) ==
    /\ listeners[scheme].state = "spawned"
    /\ n' = UseHandler(n, r)
    /\ \E bound \in BOOLEAN :
        listeners' = [listeners EXCEPT
            ![scheme].srv = GracefulServer(serverConfig, scheme, n'),
            ![scheme].state = IF bound THEN "serving" ELSE "returned",
            ![scheme].err = IF bound THEN None ELSE "error"]
    /\ UNCHANGED <<pc, calls, config, r, serverConfig, wg, panicMsg, req, events,
                 clock, middleware, other, otherEvents>>

(***************************************************************************)
(* The listener goroutines, app.go:67-81 and app.go:86-100                 *)
(***************************************************************************)
\* app.go:70-80, app.go:89-99: build srv and call ListenAndServe[TLS]; the
\* call either starts accepting or returns at once with an error (the
\* address cannot be bound, the certificate cannot be loaded); the error
\* is not assigned to anything
ListenAndServe(scheme) ==
    /\ listeners[scheme].state = "spawned"
    /\ \E bound \in BOOLEAN :
        listeners' = [listeners EXCEPT
            ![scheme].srv = GracefulServer(serverConfig, scheme, n),
            ![scheme].state = IF bound THEN "serving" ELSE "returned",
            ![scheme].err = IF bound THEN None ELSE "error"]
    /\ UNCHANGED <<pc, calls, config, r, n, serverConfig, wg, panicMsg, req, events,
                 clock, middleware, other, otherEvents>>

\* a serving listener hands one request to srv.Handler
Serve(scheme) ==
    /\ listeners[scheme].state = "serving"
    /\ listeners[scheme].served < MaxServed
    /\ listeners' = [listeners EXCEPT ![scheme].served = @ + 1]
    /\ UNCHANGED <<pc, calls, config, r, n, serverConfig, wg, panicMsg, req, events,
                 clock, middleware, other, otherEvents>>

\* mutant: stopping one listener stops every serving listener
StopSignal_Broadcast(scheme) ==
    /\ listeners[scheme].state = "serving"
    /\ listeners' = [s \in Schemes |->
          IF listeners[s].state = "serving"
            THEN [listeners[s] EXCEPT !.state = "draining"]
            ELSE listeners[s]]
    /\ UNCHANGED <<pc, calls, config, r, n, serverConfig, wg, panicMsg, req, events,
                 clock, middleware, other, otherEvents>>

\* graceful.Server: the stop signal reaches this listener, which stops
\* accepting and waits for in-flight requests up to srv.Timeout
StopSignal(scheme) ==
    /\ listeners[scheme].state = "serving"
    /\ listeners' = [listeners EXCEPT ![scheme].state = "draining"]
    /\ UNCHANGED <<pc, calls, config, r, n, serverConfig, wg, panicMsg, req, events,
                 clock, middleware, other, otherEvents>>

\* draining is over (requests finished or the timeout closed them):
\* ListenAndServe[TLS] returns
Drained(scheme) ==
    /\ listeners[scheme].state = "draining"
    /\ listeners' = [listeners EXCEPT ![scheme].state = "returned",
                                      ![scheme].err = "closed"]
    /\ UNCHANGED <<pc, calls, config, r, n, serverConfig, wg, panicMsg, req, events,
                 clock, middleware, other, otherEvents>>

\* mutant: the goroutine ends without wg.Done()
Done_NoSignal(scheme) ==
    /\ listeners[scheme].state = "returned"
    /\ listeners' = [listeners EXCEPT ![scheme].state = "exited"]
    /\ UNCHANGED <<pc, calls, config, r, n, serverConfig, wg, panicMsg, req, events,
                 clock, middleware, other, otherEvents>>

\* app.go:68, app.go:87: the deferred wg.Done() runs as the goroutine ends
Done(scheme) ==
    /\ listeners[scheme].state = "returned"
    /\ listeners' = [listeners EXCEPT ![scheme].state = "exited"]
    /\ wg' = wg - 1
    /\ UNCHANGED <<pc, calls, config, r, n, serverConfig, panicMsg, req, events,
                 clock, middleware, other, otherEvents>>

Main ==
    \/ LoadConfig
    \/ ConfigureLogging
    \/ InitResources
    \/ ConfigureRoutes
    \/ SetMiddleware
    \/ GetServerConf
    \/ HandleStart
    \/ CheckPorts
    \/ StartHTTP
    \/ StartTLS
    \/ Wait
    \/ HandleStopped

Listener(scheme) ==
    \/ ListenAndServe(scheme)
    \/ Serve(scheme)
    \/ StopSignal(scheme)
    \/ Drained(scheme)
    \/ Done(scheme)

Next ==
    \/ Main
    \/ \E scheme \in Schemes : Listener(scheme)

Spec == Init /\ [][Next]_vars

\* The Go scheduler runs every runnable goroutine: the goroutine executing
\* Run takes its next step when it can, a created listener goroutine reaches
\* its serve call, and a goroutine whose serve call returned runs its
\* deferred wg.Done().  When a listener stops is left to its environment.
FairSpec ==
    /\ Spec
    /\ WF_vars(Main)
    /\ \A scheme \in Schemes :
          WF_vars(ListenAndServe(scheme)) /\ WF_vars(Done(scheme))

(***************************************************************************)
(* A request through the chain, middleware.go:45-74                        *)
(*                                                                         *)
(* negroni calls unit i as handlers[i].ServeHTTP(rw, r, next) where next   *)
(* runs unit i+1; the frame of unit i is suspended while next runs.  A     *)
(* unit's ServeHTTP is therefore two steps: up to and including its call   *)
(* of next (phase "enter"), and from next's return or panic to its own     *)
(* return or panic (phase "exit").                                         *)
(***************************************************************************)
\* every list SetMiddleware can return, up to MaxMiddleware units
MiddlewareLists == UNION {[1..k -> Units] : k \in 0..MaxMiddleware}

\* the chain as initApp builds it, app.go:115-123, for every such list
MwInit ==
    /\ RunInit
    /\ middleware \in MiddlewareLists
    /\ n = UseHandler(NegroniNew(middleware), HandleFunc(NewRouter, Routes))
    /\ NoTraffic

\* the http.ResponseWriter the unit at depth d receives: negroni hands the
\* chain a negroni.ResponseWriter; below a gzip unit, middleware.go:72-73,
\* the writer is gziphandler's wrapper when the client accepts gzip
Writer(d) ==
    IF req.r.AcceptGzip /\ \E i \in 1..(d - 1) : n.handlers[i].kind = "gzip"
      THEN "gzip"
      ELSE "negroni"

\* res, ok := rw.(negroni.ResponseWriter), middleware.go:62
ExposesStatus(rw) == rw = "negroni"

\* a call made by the frame at req.depth: what was called, with which
\* request and writer, when, whether it raised (or, for recoverFunc, met) a
\* fault, and the status, start time and duration it was given or wrote
LogEvent(ev, fault, status, start, dur) ==
    [ev |-> ev, at |-> req.depth, r |-> req.r, rw |-> Writer(req.depth),
     fault |-> fault, status |-> status, time |-> clock,
     start |-> start, dur |-> dur]

Event(ev, fault, status) == LogEvent(ev, fault, status, 0, 0)

At(kind, phase) ==
    /\ req.state = "active"
    /\ req.depth \in DOMAIN n.handlers
    /\ n.handlers[req.depth].kind = kind
    /\ req.phase = phase

\* next(rw, r)
CallNext(q) == [q EXCEPT !.depth = @ + 1, !.phase = "enter"]

\* the frame at q.depth is left, by return or by a panic that unwinds it
Leave(q, panicking) ==
    [q EXCEPT !.depth = @ - 1, !.phase = "exit", !.panicking = panicking]

\* net/http hands an accepted request to n.ServeHTTP
Receive ==
    /\ req.state \in {"idle", "done", "crashed"}
    /\ \E rq \in Requests :
          req' = [state |-> "active", r |-> rq, depth |-> 1, phase |-> "enter",
                  panicking |-> FALSE, status |-> 0,
                  starts |-> [d \in DOMAIN n.handlers |-> 0]]
    /\ events' = <<>>
    /\ UNCHANGED <<pc, calls, config, r, n, serverConfig, wg, listeners, panicMsg,
                 clock, middleware, other, otherEvents>>

\* middleware.go:46-50: the defer is registered when recoverFunc is not
\* nil, then next is called
RecoveryCall ==
    /\ At("recovery", "enter")
    /\ events' = Append(events, Event("next", FALSE, req.status))
    /\ req' = CallNext(req)
    /\ UNCHANGED <<pc, calls, config, r, n, serverConfig, wg, listeners, panicMsg,
                 clock, middleware, other, otherEvents>>

\* mutant: the supplied func is called from inside a deferred closure, where
\* its recover() has no effect
AfterRecoverFunc_NoEffect(q, recoverFunc) == Leave(q, q.panicking)

\* what the supplied func does when it runs as the deferred call: only a
\* func that calls recover() stops a panic in flight (recover() is
\* effective because the func is itself the deferred function)
AfterRecoverFunc(q, recoverFunc) ==
    IF recoverFunc = "recover" /\ q.panicking
      THEN Leave([q EXCEPT !.status = 500], FALSE)
      ELSE Leave(q, q.panicking)

\* mutant: the deferred call is registered without the nil test
RecoveryReturn_NoNilTest ==
    /\ At("recovery", "exit")
    /\ LET rec == n.handlers[req.depth] IN
          /\ events' = Append(events,
                 Event("recoverFunc", req.panicking, req.status))
          /\ req' = AfterRecoverFunc(req, rec.recoverFunc)
    /\ UNCHANGED <<pc, calls, config, r, n, serverConfig, wg, listeners, panicMsg,
                 clock, middleware, other, otherEvents>>

\* mutant: the unit keeps the writer of the request it saw last in a field
\* shared by all goroutines, and the recovery status is written there too
RecoveryReturn_SharedWriter ==
    /\ At("recovery", "exit")
    /\ LET rec == n.handlers[req.depth] IN
          IF rec.recoverFunc # "nil"
            THEN /\ events' = Append(events,
                        Event("recoverFunc", req.panicking, req.status))
                 /\ req' = AfterRecoverFunc(req, rec.recoverFunc)
                 /\ other' = IF req.panicking /\ other.state = "active"
                               THEN [other EXCEPT !.status = 500]
                               ELSE other
            ELSE /\ events' = events
                 /\ req' = Leave(req, req.panicking)
                 /\ other' = other
    /\ UNCHANGED <<pc, calls, config, r, n, serverConfig, wg, listeners, panicMsg,
                 clock, middleware, otherEvents>>

\* mutant: the func is called only when a panic is unwinding the frame
RecoveryReturn_OnlyOnPanic ==
    /\ At("recovery", "exit")
    /\ LET rec == n.handlers[req.depth] IN
          IF rec.recoverFunc # "nil" /\ req.panicking
            THEN /\ events' = Append(events,
                        Event("recoverFunc", req.panicking, req.status))
                 /\ req' = AfterRecoverFunc(req, rec.recoverFunc)
            ELSE /\ events' = events
                 /\ req' = Leave(req, req.panicking)
    /\ UNCHANGED <<pc, calls, config, r, n, serverConfig, wg, listeners, panicMsg,
                 clock, middleware, other, otherEvents>>

\* middleware.go:47, 51: next returned or panicked; the deferred
\* rec.recoverFunc(rw, r) runs if it was registered, then the frame is left
RecoveryReturn ==
    /\ At("recovery", "exit")
    /\ LET rec == n.handlers[req.depth] IN
          IF rec.recoverFunc # "nil"
            THEN /\ events' = Append(events,
                        Event("recoverFunc", req.panicking, req.status))
                 /\ req' = AfterRecoverFunc(req, rec.recoverFunc)
            ELSE /\ events' = events
                 /\ req' = Leave(req, req.panicking)
    /\ UNCHANGED <<pc, calls, config, r, n, serverConfig, wg, listeners, panicMsg,
                 clock, middleware, other, otherEvents>>

\* start := time.Now(), middleware.go:54, kept in the frame
TakeStart(q) == [q EXCEPT !.starts[q.depth] = clock]

\* mutant: a fault of preLogFunc is swallowed and next is called anyway
LoggingCall_SwallowsFault ==
    /\ At("logging", "enter")
    /\ LET l == n.handlers[req.depth] IN
          IF l.preLogFunc # "nil"
            THEN \E fault \in BOOLEAN :
                    /\ events' = events \o
                           << LogEvent("preLogFunc", fault, req.status, clock, 0),
                              Event("next", FALSE, req.status) >>
                    /\ req' = CallNext(TakeStart(req))
            ELSE /\ events' = Append(events, Event("next", FALSE, req.status))
                 /\ req' = CallNext(TakeStart(req))
    /\ UNCHANGED <<pc, calls, config, r, n, serverConfig, wg, listeners, panicMsg,
                 clock, middleware, other, otherEvents>>

\* mutant: next is called before preLogFunc
LoggingCall_NextFirst ==
    /\ At("logging", "enter")
    /\ LET l == n.handlers[req.depth] IN
          IF l.preLogFunc # "nil"
            THEN /\ events' = events \o
                        << Event("next", FALSE, req.status),
                           LogEvent("preLogFunc", FALSE, req.status, clock, 0) >>
                 /\ req' = CallNext(TakeStart(req))
            ELSE /\ events' = Append(events, Event("next", FALSE, req.status))
                 /\ req' = CallNext(TakeStart(req))
    /\ UNCHANGED <<pc, calls, config, r, n, serverConfig, wg, listeners, panicMsg,
                 clock, middleware, other, otherEvents>>

\* middleware.go:54-59: start is taken, preLogFunc, when not nil, is called
\* with it before next; a fault of the callback leaves the frame without
\* calling next
LoggingCall ==
    /\ At("logging", "enter")
    /\ LET l == n.handlers[req.depth] IN
          IF l.preLogFunc # "nil"
            THEN \E fault \in BOOLEAN :
                    IF fault
                      THEN /\ events' = Append(events,
                                  LogEvent("preLogFunc", TRUE, req.status, clock, 0))
                           /\ req' = Leave(TakeStart(req), TRUE)
                      ELSE /\ events' = events \o
                                  << LogEvent("preLogFunc", FALSE, req.status, clock, 0),
                                     Event("next", FALSE, req.status) >>
                           /\ req' = CallNext(TakeStart(req))
            ELSE /\ events' = Append(events, Event("next", FALSE, req.status))
                 /\ req' = CallNext(TakeStart(req))
    /\ UNCHANGED <<pc, calls, config, r, n, serverConfig, wg, listeners, panicMsg,
                 clock, middleware, other, otherEvents>>

\* mutant: the operands of the subtraction are exchanged
Since_Reversed(start) == start - clock

\* time.Since(start), middleware.go:64 and middleware.go:66
Since(start) == clock - start

\* mutant: the type assertion's ok is ignored
PostStatus_IgnoresOk(q, rw) == q.status

\* middleware.go:62-67: res.Status() when rw is a negroni.ResponseWriter,
\* 0 otherwise
PostStatus(q, rw) == IF ExposesStatus(rw) THEN q.status ELSE 0

\* mutant: postLogFunc is deferred, so it also runs while a panic unwinds
LoggingReturn_Deferred ==
    /\ At("logging", "exit")
    /\ LET l == n.handlers[req.depth] IN
          IF l.postLogFunc = "nil"
            THEN /\ events' = events
                 /\ req' = Leave(req, req.panicking)
            ELSE /\ events' = Append(events,
                        LogEvent("postLogFunc", FALSE,
                                 PostStatus(req, Writer(req.depth)), 0,
                                 Since(req.starts[req.depth])))
                 /\ req' = Leave(req, req.panicking)
    /\ UNCHANGED <<pc, calls, config, r, n, serverConfig, wg, listeners, panicMsg,
                 clock, middleware, other, otherEvents>>

\* middleware.go:61-68: reached only when next returned; a panic of next
\* unwinds this frame, which has no deferred call
LoggingReturn ==
    /\ At("logging", "exit")
    /\ LET l == n.handlers[req.depth] IN
          IF req.panicking \/ l.postLogFunc = "nil"
            THEN /\ events' = events
                 /\ req' = Leave(req, req.panicking)
            ELSE \E fault \in BOOLEAN :
                 /\ events' = Append(events,
                        LogEvent("postLogFunc", fault,
                                 PostStatus(req, Writer(req.depth)), 0,
                                 Since(req.starts[req.depth])))
                 /\ req' = Leave(req, fault)
    /\ UNCHANGED <<pc, calls, config, r, n, serverConfig, wg, listeners, panicMsg,
                 clock, middleware, other, otherEvents>>

\* middleware.go:72-73: next is wrapped in the gzip handler and called
GzipCall ==
    /\ At("gzip", "enter")
    /\ events' = Append(events, Event("next", FALSE, req.status))
    /\ req' = CallNext(req)
    /\ UNCHANGED <<pc, calls, config, r, n, serverConfig, wg, listeners, panicMsg,
                 clock, middleware, other, otherEvents>>

\* middleware.go:73-74: the gzip handler returns, or the panic unwinds it
GzipReturn ==
    /\ At("gzip", "exit")
    /\ req' = Leave(req, req.panicking)
    /\ UNCHANGED <<pc, calls, config, r, n, serverConfig, wg, listeners, panicMsg, events,
                 clock, middleware, other, otherEvents>>

\* the router, last unit of the chain (app.go:121): a request whose path
\* has no route gets 404; a route's handler writes 200 or panics
RouterServe ==
    /\ At("wrap", "enter")
    /\ LET router == n.handlers[req.depth].handler IN
          IF req.r.Path \in router.routes
            THEN \E fault \in BOOLEAN :
                  /\ events' = Append(events,
                        Event("handler", fault, IF fault THEN req.status ELSE 200))
                  /\ req' = Leave([req EXCEPT !.status = IF fault THEN @ ELSE 200],
                                  fault)
            ELSE  /\ events' = Append(events, Event("notFound", FALSE, 404))
                  /\ req' = Leave([req EXCEPT !.status = 404], FALSE)
    /\ UNCHANGED <<pc, calls, config, r, n, serverConfig, wg, listeners, panicMsg,
                 clock, middleware, other, otherEvents>>

\* n.ServeHTTP is left: by return, or by the panic no unit stopped
Finish ==
    /\ req.state = "active"
    /\ req.depth = 0
    /\ req' = [req EXCEPT !.state = IF req.panicking THEN "crashed" ELSE "done"]
    /\ UNCHANGED <<pc, calls, config, r, n, serverConfig, wg, listeners, panicMsg, events,
                 clock, middleware, other, otherEvents>>

MwNext ==
    \/ Receive
    \/ RecoveryCall
    \/ RecoveryReturn
    \/ LoggingCall
    \/ LoggingReturn
    \/ GzipCall
    \/ GzipReturn
    \/ RouterServe
    \/ Finish

MwSpec == MwInit /\ [][MwNext]_vars

(***************************************************************************)
(* Time: the request of MwSpec under a clock that advances                 *)
(***************************************************************************)
\* the monotonic clock advances; it never goes back
Tick ==
    /\ clock < MaxClock
    /\ clock' = clock + 1
    /\ UNCHANGED <<pc, calls, config, r, n, serverConfig, wg, listeners, panicMsg,
                 req, events, middleware, other, otherEvents>>

TimedInit ==
    /\ MwInit
    /\ Len(middleware) <= MaxTimedMiddleware

TimedNext ==
    \/ MwNext
    \/ Tick

TimedSpec == TimedInit /\ [][TimedNext]_vars

(***************************************************************************)
(* Concurrency: net/http serves each connection in its own goroutine, so   *)
(* two requests can be inside the chain at once.  The steps of the chain   *)
(* act on the request whose goroutine is executing; Switch hands the       *)
(* processor to the other goroutine.                                       *)
(***************************************************************************)
Switch ==
    /\ req' = other
    /\ events' = otherEvents
    /\ other' = req
    /\ otherEvents' = events
    /\ UNCHANGED <<pc, calls, config, r, n, serverConfig, wg, listeners, panicMsg,
                 clock, middleware>>

ConcInit ==
    /\ MwInit
    /\ Len(middleware) <= MaxConcMiddleware

ConcNext ==
    \/ MwNext
    \/ Switch

ConcSpec == ConcInit /\ [][ConcNext]_vars

(***************************************************************************)
(* Vocabulary of the properties                                            *)
(***************************************************************************)
Count(name) == Cardinality({i \in DOMAIN calls : calls[i].name = name})

CallNames == [i \in DOMAIN calls |-> calls[i].name]

IsPrefix(s, t) == Len(s) <= Len(t) /\ \A i \in DOMAIN s : s[i] = t[i]

StartupOrder ==
    <<"LoadConfig", "ConfigureLogging", "InitResources", "ConfigureRoutes",
      "SetMiddleware", "GetServerConf", "HandleStart">>

Started(scheme) == listeners[scheme].state # "none"

Exited(scheme) == listeners[scheme].state = "exited"

Running(scheme) == Started(scheme) /\ ~Exited(scheme)

Other(scheme) == IF scheme = "http" THEN "https" ELSE "http"

PortOf(scheme) == IF scheme = "http" THEN serverConfig.Port ELSE serverConfig.TLSPort

BothPortsNonPositive == serverConfig.Port <= 0 /\ serverConfig.TLSPort <= 0

\* Run went past the port check
PastCheck == pc \in {"StartHTTP", "StartTLS", "Wait", "HandleStopped", "done"}

\* Run was left by the panic of app.go:60
Aborted == pc = "panicked" /\ panicMsg = "No ports specified"

(***************************************************************************)
(* Run: lifecycle properties                                               *)
(***************************************************************************)

\* C1: HandleStopped is never called twice, it has been called exactly once
\* when Run returns, and whenever it has been called every listener
\* goroutine that was started has executed its wg.Done() and no listener
\* starts afterwards.
C1_HandleStoppedOnceAfterJoin ==
    /\ Count("HandleStopped") <= 1
    /\ pc = "done" => Count("HandleStopped") = 1
    /\ Count("HandleStopped") = 1 =>
          /\ \A scheme \in Schemes : ~Running(scheme)
          /\ wg = 0
          /\ pc \in {"done", "panicked"}

C1_Witness ==
    /\ pc = "done"
    /\ Count("HandleStopped") = 1
    /\ \A scheme \in Schemes : Exited(scheme) /\ listeners[scheme].served > 0

\* C2: with Port <= 0 and TLSPort <= 0 in the ServerConfig that GetServerConf
\* returned, Run never gets past the port check, no listener goroutine is
\* started, and the step taken at the check is the panic.
C2_NoListenerState ==
    (Count("GetServerConf") = 1 /\ BothPortsNonPositive) =>
        /\ ~PastCheck
        /\ wg = 0
        /\ \A scheme \in Schemes : ~Started(scheme)

C2_AbortStep ==
    (pc = "CheckPorts" /\ BothPortsNonPositive) =>
        (pc' = "panicked" /\ panicMsg' = "No ports specified")

C2_NoPortsAborts == []C2_NoListenerState /\ [][C2_AbortStep]_vars

C2_Witness ==
    /\ Aborted
    /\ serverConfig.Port = -1
    /\ serverConfig.TLSPort = 0
    /\ serverConfig.Host = "localhost"

\* C3: when Run is about to abort or has aborted for lack of a port,
\* HandleStart has been called exactly once, as the last callback, with the
\* Host, Port and TLSPort of the ServerConfig, and no listener exists.
C3_HandleStartBeforeAbort ==
    (Aborted \/ (pc = "CheckPorts" /\ BothPortsNonPositive)) =>
        /\ Count("HandleStart") = 1
        /\ calls[Len(calls)] =
             Call("HandleStart",
                  <<serverConfig.Host, serverConfig.Port, serverConfig.TLSPort>>)
        /\ \A scheme \in Schemes : ~Started(scheme)

C3_Witness ==
    /\ Aborted
    /\ calls[Len(calls)] = Call("HandleStart", <<"localhost", 0, -1>>)

\* C4: the callbacks are invoked in the order LoadConfig, ConfigureLogging,
\* InitResources, ConfigureRoutes, SetMiddleware, GetServerConf, HandleStart
\* (then HandleStopped), none twice, each after LoadConfig with the Config
\* that LoadConfig returned; once a listener goroutine exists all seven have
\* returned, and the ServerConfig in use is the one GetServerConf produced.
C4_StartupOrder ==
    /\ IsPrefix(CallNames, StartupOrder \o <<"HandleStopped">>)
    /\ \A i \in DOMAIN calls :
          calls[i].name \in {"ConfigureLogging", "InitResources", "SetMiddleware",
                             "GetServerConf"} => calls[i].args = <<config>>
    /\ (\E scheme \in Schemes : Started(scheme)) =>
          /\ Len(calls) >= Len(StartupOrder)
          /\ Count("GetServerConf") = 1
          /\ config \in Configs
          /\ serverConfig \in ServerConfigs
          /\ pc \notin {"panicked"} \/ Count("HandleStopped") = 1

C4_Witness ==
    /\ \E scheme \in Schemes : listeners[scheme].state = "serving"
    /\ CallNames = StartupOrder
    /\ config = "cfgB"

\* the decimal text of the ports a ServerConfig of the model can hold
PortText(port) ==
    CASE port = 8080 -> "8080" [] port = 8443 -> "8443"
      [] port = 0 -> "0" [] port = -1 -> "-1"

\* C5: a scheme's goroutine exists only if its port is positive; once Run
\* is past both go statements the started goroutines are exactly the
\* schemes with a positive port (one or two of them); a goroutine that has
\* reached its serve call listens on Host:port of its own scheme, with the
\* timeouts of the ServerConfig, and serves n, the chain initApp built.
C5_ListenersMatchPorts ==
    /\ \A scheme \in Schemes :
          /\ Started(scheme) => PortOf(scheme) > 0
          /\ pc \in {"Wait", "HandleStopped", "done"} =>
                (Started(scheme) <=> PortOf(scheme) > 0)
          /\ listeners[scheme].state \in {"serving", "draining", "returned", "exited"} =>
                /\ listeners[scheme].srv.Addr =
                      serverConfig.Host \o ":" \o PortText(PortOf(scheme))
                /\ listeners[scheme].srv.Handler = n
                /\ listeners[scheme].srv.tls = (scheme = "https")
                /\ listeners[scheme].srv.Timeout = serverConfig.GracefulTimeout
                /\ n # NilNegroni
    /\ pc \in {"Wait", "HandleStopped", "done"} =>
          Cardinality({scheme \in Schemes : Started(scheme)}) \in {1, 2}

C5_Witness ==
    /\ serverConfig.Port = 8080
    /\ serverConfig.TLSPort = 0
    /\ pc = "Wait"
    /\ listeners["http"].state = "serving"
    /\ listeners["http"].srv.Addr = "localhost:8080"
    /\ listeners["https"].state = "none"

\* C6: with both ports positive, a step that changes one listener leaves
\* the other listener as it was; while one listener has stopped and the
\* other is serving, the other can take a request and can still be
\* stopped; HandleStopped is called only when both have exited.
C6_OneStepOneListener ==
    \A scheme \in Schemes :
        listeners'[scheme] # listeners[scheme] =>
            listeners'[Other(scheme)] = listeners[Other(scheme)]

C6_OtherNotBlocked ==
    \A scheme \in Schemes :
        (/\ listeners[scheme].state \in {"draining", "returned", "exited"}
         /\ listeners[Other(scheme)].state = "serving") =>
            /\ ENABLED StopSignal(Other(scheme))
            /\ listeners[Other(scheme)].served < MaxServed =>
                  ENABLED Serve(Other(scheme))
            /\ Count("HandleStopped") = 0

C6_BothExitedAtStop ==
    (serverConfig.Port > 0 /\ serverConfig.TLSPort > 0
        /\ Count("HandleStopped") = 1) =>
            \A scheme \in Schemes : Exited(scheme)

C6_IndependentListeners ==
    /\ [](C6_OtherNotBlocked /\ C6_BothExitedAtStop)
    /\ [][C6_OneStepOneListener]_vars

C6_Witness ==
    /\ listeners["http"].state = "exited"
    /\ listeners["https"].state = "serving"
    /\ listeners["https"].served = MaxServed
    /\ listeners["http"].served = 0
    /\ pc = "Wait"

\* C7: Run has not returned (and has not reached HandleStopped) while a
\* started listener is still running; once Run waits and every started
\* listener has exited, Run calls HandleStopped and ends.
C7_NoReturnWhileRunning ==
    (pc \in {"HandleStopped", "done"} \/ Count("HandleStopped") = 1) =>
        \A scheme \in Schemes : ~Running(scheme)

C7_AllExited ==
    /\ pc = "Wait"
    /\ \A scheme \in Schemes : ~Running(scheme)

C7_RunEnded ==
    /\ Count("HandleStopped") = 1
    /\ pc \in {"done", "panicked"}

C7_RunBlocksUntilStopped ==
    /\ []C7_NoReturnWhileRunning
    /\ (C7_AllExited ~> C7_RunEnded)

C7_Witness ==
    /\ pc = "done"
    /\ Exited("http")
    /\ Exited("https")

(***************************************************************************)
(* Middleware: recovery                                                    *)
(***************************************************************************)
Last(seq) == seq[Len(seq)]

\* the unit whose frame was left by the latest step
Below == n.handlers[req.depth + 1]

\* the latest step was a recovery unit's deferred callback, called while a
\* panic raised under it was unwinding
JustCalledBack ==
    /\ req.state = "active"
    /\ req.phase = "exit"
    /\ events # <<>>
    /\ Last(events).ev = "recoverFunc"
    /\ Last(events).fault
    /\ Last(events).at = req.depth + 1

\* a panic arrives at the frame of a recovery unit whose callback is set
FaultAtRecovery ==
    /\ At("recovery", "exit")
    /\ req.panicking
    /\ n.handlers[req.depth].recoverFunc # "nil"

\* the callback is called with the writer and the request of the unit
CalledBack ==
    /\ Len(events') = Len(events) + 1
    /\ SubSeq(events', 1, Len(events)) = events
    /\ LET e == events'[Len(events')] IN
          /\ e.ev = "recoverFunc"
          /\ e.at = req.depth
          /\ e.r = req.r
          /\ e.rw = Writer(req.depth)
          /\ e.fault
          /\ e.status = req.status

\* C8 as stated: after the callback of a recovery unit ran for a fault of
\* its next, the unit completes normally: the fault is gone.
C8_AlwaysCompletesNormally == JustCalledBack => ~req.panicking

\* C8 amended: when next panics under a recovery unit with a callback, the
\* callback is called with the request's writer and request as the frame
\* is left, and the unit completes normally exactly when the callback
\* calls recover(); otherwise the panic goes on to the unit above.
C8_CallbackThenRecoverDecides ==
    [][FaultAtRecovery =>
        /\ CalledBack
        /\ req'.depth = req.depth - 1
        /\ req'.phase = "exit"
        /\ req'.panicking = (n.handlers[req.depth].recoverFunc # "recover")]_vars

C8_Witness ==
    /\ JustCalledBack
    /\ ~req.panicking
    /\ Below = RecoveryMiddleware("recover")
    /\ req.depth >= 1
    /\ req.status = 500

\* C9: a recovery unit built with a nil callback calls next and nothing
\* else: no callback event is ever recorded at its depth, and a panic of
\* next (like a return) leaves its frame with status and panic unchanged.
C9_NoEventAtNil ==
    \A i \in DOMAIN events :
        (events[i].ev = "recoverFunc") =>
            n.handlers[events[i].at].recoverFunc # "nil"

C9_NilStep ==
    \A d \in DOMAIN n.handlers :
        (req.state = "active" /\ req.depth = d
            /\ n.handlers[d] = RecoveryMiddleware("nil")) =>
            IF req.phase = "enter"
              THEN /\ req' = [req EXCEPT !.depth = d + 1]
                   /\ Len(events') = Len(events) + 1
                   /\ Last(events').ev = "next"
              ELSE /\ req' = [req EXCEPT !.depth = d - 1]
                   /\ events' = events

C9_NilCallbackPropagates == []C9_NoEventAtNil /\ [][C9_NilStep]_vars

C9_Witness ==
    /\ req.state = "crashed"
    /\ Len(n.handlers) = 2
    /\ n.handlers[1] = RecoveryMiddleware("nil")
    /\ Len(events) = 2
    /\ Last(events).ev = "handler"

\* an event that raises a fault: the route handler or a logging callback
IsRaise(e) == e.fault /\ e.ev \in {"handler", "preLogFunc", "postLogFunc"}

Recovers(d) ==
    n.handlers[d].kind = "recovery" /\ n.handlers[d].recoverFunc = "recover"

\* C10: a callback called for a fault sits above the place that raised it;
\* after a unit raised a fault nothing at its depth or below runs, so a
\* recovery unit it wraps never sees the fault; and the request ends in a
\* panic exactly when no recovering unit stands above its last fault.
C10_OnlyFaultsBelow ==
    /\ \A i \in DOMAIN events :
          (events[i].ev = "recoverFunc" /\ events[i].fault) =>
              \E j \in 1..(i - 1) :
                  IsRaise(events[j]) /\ events[j].at > events[i].at
    /\ \A j \in DOMAIN events :
          IsRaise(events[j]) =>
              \A i \in (j + 1)..Len(events) : events[i].at < events[j].at
    /\ req.state \in {"done", "crashed"} =>
          (req.state = "crashed" <=>
              \E j \in DOMAIN events :
                  /\ IsRaise(events[j])
                  /\ \A i \in (j + 1)..Len(events) : ~IsRaise(events[i])
                  /\ \A d \in 1..(events[j].at - 1) : ~Recovers(d))

C10_Witness ==
    /\ req.state = "crashed"
    /\ Len(n.handlers) = 3
    /\ n.handlers[1].kind = "logging"
    /\ n.handlers[2] = RecoveryMiddleware("recover")
    /\ Last(events).ev = "postLogFunc"
    /\ Last(events).fault
    /\ \E i \in DOMAIN events :
          events[i].ev = "recoverFunc" /\ ~events[i].fault

(***************************************************************************)
(* Middleware: logging                                                     *)
(***************************************************************************)
UnitAt(d) == n.handlers[d]

IsLogging(d) == UnitAt(d).kind = "logging"

EventsAt(d, ev) == {i \in DOMAIN events : events[i].at = d /\ events[i].ev = ev}

\* C11, the order of the calls of every logging frame: a preLogFunc call
\* comes from a logging unit whose preLogFunc is set, carries the request
\* and the frame's start, which is the clock reading at the call, and
\* precedes everything else of its depth and below; with preLogFunc set,
\* next directly follows that call; a postLogFunc call comes from a unit
\* whose postLogFunc is set, after the frame's call of next and after all
\* that ran below it; next is called at most once per frame, and exactly
\* once by every frame that was entered and whose preLogFunc did not fault.
C11_LoggingOrder ==
    /\ \A i \in DOMAIN events :
          LET e == events[i] IN
          /\ e.ev = "preLogFunc" =>
                /\ IsLogging(e.at) /\ UnitAt(e.at).preLogFunc # "nil"
                /\ e.r = req.r
                /\ e.start = e.time
                /\ e.start = req.starts[e.at]
                /\ \A j \in 1..(i - 1) : events[j].at < e.at
          /\ (e.ev = "next" /\ IsLogging(e.at) /\ UnitAt(e.at).preLogFunc # "nil") =>
                /\ i > 1
                /\ events[i - 1].ev = "preLogFunc"
                /\ events[i - 1].at = e.at
                /\ ~events[i - 1].fault
          /\ e.ev = "postLogFunc" =>
                /\ IsLogging(e.at) /\ UnitAt(e.at).postLogFunc # "nil"
                /\ e.r = req.r
                /\ \E j \in 1..(i - 1) :
                      /\ events[j].ev = "next" /\ events[j].at = e.at
                      /\ \A k \in (j + 1)..(i - 1) : events[k].at > e.at
                /\ \A k \in (i + 1)..Len(events) : events[k].at < e.at
    /\ \A d \in DOMAIN n.handlers :
          IsLogging(d) =>
              /\ Cardinality(EventsAt(d, "next")) <= 1
              /\ ((\E i \in DOMAIN events : events[i].at = d)
                    /\ ~(\E i \in EventsAt(d, "preLogFunc") : events[i].fault)) =>
                    Cardinality(EventsAt(d, "next")) = 1

\* C11, the steps of a logging frame: with a nil preLogFunc the frame calls
\* next and nothing else; when next returned, a nil postLogFunc leaves the
\* frame without a call and without a fault; when next panicked nothing is
\* called and the panic goes on.
C11_LoggingStep ==
    (req' # req) =>
    /\ (At("logging", "enter") /\ UnitAt(req.depth).preLogFunc = "nil") =>
          /\ req'.depth = req.depth + 1
          /\ ~req'.panicking
          /\ Len(events') = Len(events) + 1
          /\ events'[Len(events')].ev = "next"
    /\ (At("logging", "exit") /\ ~req.panicking
            /\ UnitAt(req.depth).postLogFunc = "nil") =>
          /\ events' = events
          /\ ~req'.panicking
    /\ (At("logging", "exit") /\ req.panicking) =>
          /\ events' = events
          /\ req'.panicking

C11_PreNextPost == []C11_LoggingOrder /\ [][C11_LoggingStep]_vars

C11_Witness ==
    /\ req.state = "done"
    /\ middleware = <<LoggingMiddleware("set", "nil"), LoggingMiddleware("nil", "set")>>
    /\ Len(events) = 5
    /\ events[1].ev = "preLogFunc" /\ events[1].start = 1
    /\ events[5].ev = "postLogFunc" /\ events[5].at = 2

\* the request has left the chain
Finished == req.state \in {"done", "crashed"}

\* the route handler panicked
HandlerFaulted == \E i \in DOMAIN events : events[i].ev = "handler" /\ events[i].fault

\* the order [Recovery, Logging, Compression], callbacks set
RecoveryLoggingGzip ==
    /\ Len(middleware) = 3
    /\ middleware[1].kind = "recovery" /\ middleware[1].recoverFunc # "nil"
    /\ middleware[2].kind = "logging" /\ middleware[2].postLogFunc # "nil"
    /\ middleware[3] = GzipMiddleware

\* the order [Logging, Recovery, Compression], with a callback that recovers
LoggingRecoveryGzip ==
    /\ Len(middleware) = 3
    /\ middleware[1].kind = "logging" /\ middleware[1].postLogFunc # "nil"
    /\ middleware[2] = RecoveryMiddleware("recover")
    /\ middleware[3] = GzipMiddleware

\* C12 as stated: with [Recovery, Logging, Compression] a request whose
\* route handler panicked has been logged by Logging's postLogFunc when it
\* leaves the chain.
C12_PostLogsRecoveredFault ==
    (RecoveryLoggingGzip /\ HandlerFaulted /\ Finished) =>
        \E i \in DOMAIN events : events[i].ev = "postLogFunc"

\* C12 amended: with [Recovery, Logging, Compression] a panic of the route
\* handler unwinds Logging's frame without any postLogFunc call and reaches
\* Recovery's callback, which ends the request with status 500 if it calls
\* recover() and lets the panic leave the chain otherwise; postLogFunc is
\* called with the recovery-produced status 500 when Logging is placed
\* above a recovering Recovery, as in [Logging, Recovery, Compression].
C12_PostOnlyAboveRecovery ==
    /\ (RecoveryLoggingGzip /\ HandlerFaulted) =>
          /\ \A i \in DOMAIN events : events[i].ev # "postLogFunc"
          /\ Finished =>
                /\ Last(events).ev = "recoverFunc"
                /\ Last(events).at = 1
                /\ Last(events).fault
                /\ IF middleware[1].recoverFunc = "recover"
                     THEN req.state = "done" /\ req.status = 500
                     ELSE req.state = "crashed" /\ req.status = 0
    /\ (LoggingRecoveryGzip /\ HandlerFaulted /\ Finished) =>
          /\ Last(events).ev = "postLogFunc"
          /\ Last(events).at = 1
          /\ Last(events).status = 500
          /\ events[Len(events) - 1].ev = "recoverFunc"
          /\ events[Len(events) - 1].fault

C12_Witness ==
    /\ RecoveryLoggingGzip
    /\ HandlerFaulted
    /\ req.state = "done"
    /\ req.status = 500
    /\ middleware[2] = LoggingMiddleware("set", "set")

\* the status an event writes to the response, -1 if it writes none
Written(e) ==
    CASE e.ev = "handler" /\ ~e.fault -> 200
      [] e.ev = "notFound" -> 404
      [] e.ev = "recoverFunc" /\ e.fault /\ UnitAt(e.at).recoverFunc = "recover" -> 500
      [] OTHER -> -1

\* the status this request's writer has recorded before event i
RecordedBefore(i) ==
    LET W == {j \in 1..(i - 1) : Written(events[j]) # -1} IN
      IF W = {} THEN 0
      ELSE Written(events[CHOOSE j \in W : \A k \in W : k <= j])

\* C13: every postLogFunc call receives the status that this request's
\* writer has recorded so far (0 if none yet) when the frame's writer is a
\* negroni.ResponseWriter, and 0 when it is not, which is the case exactly
\* below a gzip unit for a client that accepts gzip.
C13_PostStatus ==
    \A i \in DOMAIN events :
        LET e == events[i] IN
        e.ev = "postLogFunc" =>
            /\ (e.rw = "gzip") <=>
                  (e.r.AcceptGzip /\ \E d \in 1..(e.at - 1) : middleware[d] = GzipMiddleware)
            /\ e.rw \in {"gzip", "negroni"}
            /\ e.status = IF e.rw = "negroni" THEN RecordedBefore(i) ELSE 0

C13_Witness ==
    /\ req.state = "done"
    /\ req.status = 200
    /\ middleware = <<LoggingMiddleware("nil", "set"), GzipMiddleware,
                      LoggingMiddleware("nil", "set")>>
    /\ \E i, j \in DOMAIN events :
          /\ events[i].ev = "postLogFunc" /\ events[i].rw = "gzip"
          /\ events[i].status = 0
          /\ events[j].ev = "postLogFunc" /\ events[j].rw = "negroni"
          /\ events[j].status = 200

\* the callbacks a unit of each kind makes
CallbacksOf(kind) ==
    CASE kind = "logging" -> {"preLogFunc", "postLogFunc"}
      [] kind = "recovery" -> {"recoverFunc"}
      [] OTHER -> {}

\* the depth of the router below the supplied units
RouterDepth == Len(middleware) + 1

\* C14: the chain is the list SetMiddleware returned, in the order supplied,
\* followed by the router; a request enters at the first supplied unit, the
\* k-th call of next is made by the k-th supplied unit, every callback made
\* at a depth is one of the unit supplied at that position, and the router
\* acts only after every supplied unit has called next.
C14_ChainInSuppliedOrder ==
    /\ Len(n.handlers) = RouterDepth
    /\ \A d \in DOMAIN middleware : n.handlers[d] = middleware[d]
    /\ n.handlers[RouterDepth] = Wrap(HandleFunc(NewRouter, Routes))
    /\ (req.state = "active" /\ events = <<>>) => req.depth = 1
    /\ \A i \in DOMAIN events :
          LET e == events[i]
              nexts == {j \in 1..i : events[j].ev = "next"} IN
          /\ e.ev = "next" => e.at = Cardinality(nexts) /\ e.at \in DOMAIN middleware
          /\ e.ev \in {"preLogFunc", "postLogFunc", "recoverFunc"} =>
                /\ e.at \in DOMAIN middleware
                /\ e.ev \in CallbacksOf(middleware[e.at].kind)
          /\ e.ev \in {"handler", "notFound"} =>
                /\ e.at = RouterDepth
                /\ \A d \in DOMAIN middleware :
                      \E j \in 1..(i - 1) : events[j].ev = "next" /\ events[j].at = d
          /\ \A d \in 1..(e.at - 1) :
                \E j \in 1..(i - 1) : events[j].ev = "next" /\ events[j].at = d

C14_Witness ==
    /\ middleware = <<LoggingMiddleware("set", "set"), RecoveryMiddleware("observe"),
                      GzipMiddleware>>
    /\ req.state = "done"
    /\ [i \in DOMAIN events |-> <<events[i].ev, events[i].at>>] =
          << <<"preLogFunc", 1>>, <<"next", 1>>, <<"next", 2>>, <<"next", 3>>,
             <<"handler", 4>>, <<"recoverFunc", 2>>, <<"postLogFunc", 1>> >>

(***************************************************************************)
(* Run: the chain and startup faults                                       *)
(***************************************************************************)
SomeListenerStarted == \E scheme \in Schemes : Started(scheme)

\* in every state with a started listener the chain is the one initApp
\* built, from one call of ConfigureRoutes and one of SetMiddleware
C15_ChainOfInitApp ==
    SomeListenerStarted =>
        /\ Count("ConfigureRoutes") = 1
        /\ Count("SetMiddleware") = 1
        /\ r.kind = "router"
        /\ n = [handlers |-> Append(middleware, Wrap(r))]
        /\ \A scheme \in Schemes :
              listeners[scheme].srv # NoServer => listeners[scheme].srv.Handler = n

\* the router changes only in the step of ConfigureRoutes and the chain only
\* in the step of SetMiddleware, both before any listener is started
C15_BuildStep ==
    /\ r' # r => pc = "ConfigureRoutes" /\ ~SomeListenerStarted /\ ~SomeListenerStarted'
    /\ n' # n => pc = "SetMiddleware" /\ ~SomeListenerStarted /\ ~SomeListenerStarted'
    /\ middleware' # middleware => pc = "SetMiddleware"

\* C15: the chain and the router are built once, before any listener
\* starts, and no step of Run or of a listener changes them afterwards: while
\* a listener is started the chain is the one built during initApp.
C15_BuiltOnceThenReadOnly ==
    /\ []C15_ChainOfInitApp
    /\ [][C15_BuildStep]_vars

C15_Witness ==
    /\ listeners["http"].state = "serving"
    /\ listeners["https"].state = "serving"
    /\ listeners["http"].served > 0
    /\ Len(middleware) = 3
    /\ n = [handlers |-> Append(middleware, Wrap(r))]

\* a startup callback raised a fault: the fault is in flight and the last
\* callback invoked is one of LoadConfig .. HandleStart
StartupFault ==
    /\ panicMsg = "callback fault"
    /\ calls # <<>>
    /\ \E i \in DOMAIN StartupOrder : calls[Len(calls)].name = StartupOrder[i]

C16_FaultLeavesRun ==
    /\ panicMsg = "callback fault" => pc = "panicked"
    /\ StartupFault =>
          /\ IsPrefix(CallNames, StartupOrder)
          /\ \A scheme \in Schemes : listeners[scheme] = NoListener
          /\ wg = 0
          /\ Count("HandleStopped") = 0

\* C16: a fault of a startup callback (LoadConfig .. HandleStart) leaves Run
\* as a panic: Run and the listeners take no further step, so no later
\* callback is invoked, no listener is started and HandleStopped is not
\* called.
C16_StartupFaultPropagates ==
    /\ []C16_FaultLeavesRun
    /\ [][~StartupFault]_vars

C16_Witness ==
    /\ StartupFault
    /\ CallNames = StartupOrder
    /\ serverConfig.Port > 0
    /\ serverConfig.TLSPort > 0

(***************************************************************************)
(* Middleware: concurrent requests                                         *)
(***************************************************************************)
\* what is compared of an event: the call, its depth, the writer it was
\* given, the status and whether a fault was raised or met
Shape(e) == <<e.ev, e.at, e.rw, e.status, e.fault>>

\* the writer a request rq meets at depth d of the supplied list
WriterOf(rq, d) ==
    IF rq.AcceptGzip /\ \E i \in 1..(d - 1) : middleware[i] = GzipMiddleware
      THEN "gzip"
      ELSE "negroni"

\* the status the router gives a request that raises no fault
Served(rq) == IF rq.Path \in Routes THEN 200 ELSE 404

\* the calls made on the way in by the units at depths d .. router when
\* nothing raises a fault
RECURSIVE Inward(_, _)
Inward(rq, d) ==
    IF d = RouterDepth
      THEN << <<IF rq.Path \in Routes THEN "handler" ELSE "notFound",
                d, WriterOf(rq, d), Served(rq), FALSE>> >>
      ELSE (IF middleware[d].kind = "logging" /\ middleware[d].preLogFunc # "nil"
              THEN << <<"preLogFunc", d, WriterOf(rq, d), 0, FALSE>> >>
              ELSE << >>)
           \o << <<"next", d, WriterOf(rq, d), 0, FALSE>> >>
           \o Inward(rq, d + 1)

\* the calls made on the way out by the units at depths d .. 1
RECURSIVE Outward(_, _)
Outward(rq, d) ==
    IF d = 0
      THEN << >>
      ELSE (CASE middleware[d].kind = "recovery" /\ middleware[d].recoverFunc # "nil" ->
                   << <<"recoverFunc", d, WriterOf(rq, d), Served(rq), FALSE>> >>
              [] middleware[d].kind = "logging" /\ middleware[d].postLogFunc # "nil" ->
                   << <<"postLogFunc", d, WriterOf(rq, d),
                        IF WriterOf(rq, d) = "negroni" THEN Served(rq) ELSE 0,
                        FALSE>> >>
              [] OTHER -> << >>)
           \o Outward(rq, d - 1)

\* everything a request does when it is alone and nothing raises a fault
AloneTrace(rq) == Inward(rq, 1) \o Outward(rq, Len(middleware))

RecoveryInstalled ==
    \E d \in DOMAIN middleware :
        middleware[d].kind = "recovery" /\ middleware[d].recoverFunc # "nil"

\* a request in which nothing has raised a fault does what it does alone
Unaffected(q, evs) ==
    (q.state # "idle" /\ \A i \in DOMAIN evs : ~evs[i].fault) =>
        /\ IsPrefix([i \in DOMAIN evs |-> Shape(evs[i])], AloneTrace(q.r))
        /\ q.state # "crashed"
        /\ ~q.panicking
        /\ q.state = "done" =>
              /\ [i \in DOMAIN evs |-> Shape(evs[i])] = AloneTrace(q.r)
              /\ q.status = Served(q.r)

\* C17: with a recovery unit installed, whatever the interleaving with
\* another request and whatever faults that request raises, a request that
\* raises no fault makes exactly the calls, with the same writers and
\* statuses, that it makes alone, and completes with the same status.
C17_FaultIsolation ==
    RecoveryInstalled => Unaffected(req, events) /\ Unaffected(other, otherEvents)

C17_Witness ==
    /\ RecoveryInstalled
    /\ Len(middleware) = 2
    /\ req.state = "active" /\ req.depth = 1 /\ req.phase = "exit"
    /\ \A i \in DOMAIN events : ~events[i].fault
    /\ other.state = "active" /\ other.panicking
    /\ \E i \in DOMAIN otherEvents : otherEvents[i].fault

(***************************************************************************)
(* Middleware: logging times                                               *)
(***************************************************************************)
\* C18: when a logging unit has called preLogFunc and postLogFunc for a
\* request, the start given to preLogFunc is not later than the time of the
\* call of postLogFunc, and the duration given to postLogFunc is the time
\* from that start to that call, hence not negative; no postLogFunc is given
\* a negative duration.
C18_LoggingTimes ==
    \A j \in DOMAIN events :
        events[j].ev = "postLogFunc" =>
            /\ events[j].dur >= 0
            /\ \A i \in DOMAIN events :
                  (events[i].ev = "preLogFunc" /\ events[i].at = events[j].at) =>
                      /\ i < j
                      /\ events[i].start <= events[i].time
                      /\ events[i].start <= events[j].time
                      /\ events[j].dur = events[j].time - events[i].start

C18_Witness ==
    \E i, j \in DOMAIN events :
        /\ events[i].ev = "preLogFunc" /\ events[j].ev = "postLogFunc"
        /\ events[i].at = events[j].at
        /\ events[i].start = 1
        /\ events[j].time = 2
        /\ events[j].dur = 1

(***************************************************************************)
(* Middleware: how often the recovery callback runs                        *)
(***************************************************************************)
\* the unit at depth d has called next for the current request
Entered(d) == \E i \in DOMAIN events : events[i].ev = "next" /\ events[i].at = d

\* the frame of the unit at depth d has been left by the current request
LeftFrame(d) ==
    /\ Entered(d)
    /\ req.state \in {"done", "crashed"} \/ (req.state = "active" /\ req.depth < d)

RecoverFuncCalls(d) ==
    {i \in DOMAIN events : events[i].ev = "recoverFunc" /\ events[i].at = d}

\* C19: for a recovery unit with a non-nil func, the func has been called
\* exactly once when the unit's frame has been left, with or without a
\* fault, and not at all while its next has not finished; the call comes
\* after everything done at or below the unit's depth.
C19_RecoverFuncOncePerRequest ==
    \A d \in DOMAIN middleware :
        (middleware[d].kind = "recovery" /\ middleware[d].recoverFunc # "nil") =>
            /\ Cardinality(RecoverFuncCalls(d)) = IF LeftFrame(d) THEN 1 ELSE 0
            /\ \A i \in RecoverFuncCalls(d) :
                  /\ \E j \in 1..(i - 1) : events[j].ev = "next" /\ events[j].at = d
                  /\ \A j \in DOMAIN events : events[j].at > d => j < i
                  /\ \A j \in DOMAIN events : j > i => events[j].at < d

C19_Witness ==
    /\ req.state = "done"
    /\ req.status = 200
    /\ \A i \in DOMAIN events : ~events[i].fault
    /\ Cardinality({i \in DOMAIN events : events[i].ev = "recoverFunc"}) = 2
    /\ \E d \in DOMAIN middleware : Cardinality(RecoverFuncCalls(d)) = 1

(***************************************************************************)
(* Run: a listener that cannot start                                       *)
(***************************************************************************)
\* the serve call of the scheme's listener returned at once with an error
Failed(scheme) == listeners[scheme].err = "error"

C20_ErrorDiscarded ==
    /\ panicMsg \in {None, "No ports specified", "callback fault"}
    /\ \A scheme \in Schemes :
          Failed(scheme) =>
              /\ listeners[scheme].state \in {"returned", "exited"}
              /\ listeners[scheme].served = 0
              /\ pc = "panicked" => Count("HandleStopped") = 1
              /\ listeners[Other(scheme)].state = "serving" =>
                    ENABLED StopSignal(Other(scheme))
    /\ wg = Cardinality({scheme \in Schemes : Running(scheme)})

\* the step in which a serve call fails changes that listener only
C20_FailStep ==
    \A scheme \in Schemes :
        (~Failed(scheme) /\ Failed(scheme)') =>
            /\ listeners'[Other(scheme)] = listeners[Other(scheme)]
            /\ pc' = pc /\ calls' = calls /\ wg' = wg /\ panicMsg' = panicMsg

C20_AllReturnedOneFailed ==
    /\ \E scheme \in Schemes : Failed(scheme)
    /\ pc = "Wait"
    /\ \A scheme \in Schemes : listeners[scheme].state \in {"none", "returned", "exited"}

C20_Stopped == Count("HandleStopped") = 1 /\ pc \in {"done", "panicked"}

\* C20: a serve call that returns at once with an error is dropped: the
\* listener counts as returned, its goroutine runs wg.Done(), neither Run nor
\* the other listener is touched by the failure, nothing panics because of
\* it, and once every started listener has returned Run calls HandleStopped.
C20_FailedListenerIsAStoppedListener ==
    /\ []C20_ErrorDiscarded
    /\ [][C20_FailStep]_vars
    /\ \A scheme \in Schemes : (Failed(scheme) ~> Exited(scheme))
    /\ (C20_AllReturnedOneFailed ~> C20_Stopped)

C20_Witness ==
    /\ pc = "done"
    /\ Failed("http") /\ Exited("http")
    /\ listeners["https"].err = "closed" /\ Exited("https")
    /\ listeners["https"].served > 0

====
